---- MODULE Spec2Model ----
(***************************************************************************)
(* A model of FuzzyJoinPrimitive (src/fuzzyjoin/fuzzy_join.py): the type   *)
(* selector, the three match resolvers, the three join routines and        *)
(* produce.                                                                *)
(*                                                                         *)
(* Numbers.  The code computes in IEEE doubles.  The model draws the       *)
(* accuracy from the grid k/AccDen and every number and timestamp from the *)
(* integers, and compares by cross-multiplication, which is exact; on      *)
(* inputs where the doubles are exact too (AccDen a power of two) the      *)
(* model computes what the code computes.                                  *)
(*                                                                         *)
(* Raw cell values.  A string cell is a code 0, 1, 2, ... whose order is   *)
(* the lexicographic order of the strings it stands for.  A numeric cell   *)
(* is the number itself (a column that is already of numeric dtype, on     *)
(* which pd.to_numeric changes no value).  A datetime cell is the code of  *)
(* a date string, parsed by ParseDate.                                     *)
(*                                                                         *)
(* Optional values.  Python's None is the empty sequence and a value v is  *)
(* the one-element sequence <<v>>.                                         *)
(***************************************************************************)
EXTENDS Integers, Sequences, FiniteSets, TLC

VARIABLES
    left,              \* the left input Dataset (produce's left)
    right,             \* the right input Dataset (produce's right)
    hyperparams,       \* [left_col, right_col, accuracy]
    score,             \* the string scorer: <<query, choice>> -> 0..100
    pc,                \* the position in produce, or in a resolver call
    left_resource_id,  \* produce's local, Optional
    right_resource_id, \* produce's local, Optional
    join_type,         \* produce's local, Optional
    joined,            \* produce's local: the joined table, Optional
    result_dataset,    \* what produce returns, Optional
    error,             \* the exception that ended the call, Optional
    log,               \* history: the join routine entered and the resolver
                       \* calls it made, in order, as [fn, arg]
    call,              \* a resolver call's arguments
    ret                \* a resolver call's result

vars == <<left, right, hyperparams, score, pc, left_resource_id,
          right_resource_id, join_type, joined, result_dataset, error,
          log, call, ret>>

(***************************************************************************)
(* Bounds of the model                                                     *)
(***************************************************************************)
AccDen == 128        \* accuracies are k / AccDen
MaxNum == 2          \* resolver calls: numbers are -MaxNum..MaxNum
MaxTime == 4         \* resolver calls: timestamps are 0..MaxTime
MaxChoices == 2      \* resolver calls: at most this many candidates
MaxLeftKeys == 2     \* datetime resolver calls: at most this many left keys
MaxLeftRows == 2     \* joins: rows of the left table
MaxRightRows == 2    \* joins: rows of the right table

(***************************************************************************)
(* Helpers                                                                 *)
(***************************************************************************)
None == <<>>
Some(v) == <<v>>
Abs(x) == IF x < 0 THEN -x ELSE x
Min2(a, b) == IF a <= b THEN a ELSE b
Range(s) == {s[i] : i \in 1..Len(s)}
SetMax(S) == CHOOSE x \in S : \A y \in S : y <= x
SetMin(S) == CHOOSE x \in S : \A y \in S : x <= y
SeqsUpTo(S, n) == UNION {[1..k -> S] : k \in 0..n}
DistinctSeqs(S, n) ==
    {s \in SeqsUpTo(S, n) : \A i, j \in 1..Len(s) : i # j => s[i] # s[j]}

\* accuracy as the numerator k of k / AccDen
ValidAccuracies == {1, AccDen \div 2, (3 * AccDen) \div 4, AccDen}
InvalidAccuracies == {-1, 0, AccDen + 1, (5 * AccDen) \div 4}

(***************************************************************************)
(* The string resolver                                                     *)
(***************************************************************************)
ScoreScale == 100
ScoreSet == {0, 1, 75, 100}

\* fuzzywuzzy's process.extractOne(query, choices) with its default scorer:
\* the first choice of maximum score with that score, None without choices.
\* max(best_list, key=score) keeps the first of equal maxima.
RECURSIVE MaxByScore(_, _, _)
MaxByScore(best_list, i, best) ==
    IF i > Len(best_list) THEN best
    ELSE MaxByScore(best_list, i + 1,
                    IF best_list[i][2] > best[2] THEN best_list[i] ELSE best)

extractOne(query, choices) ==
    LET best_list == [i \in 1..Len(choices) |->
                         <<choices[i], score[<<query, choices[i]>>]>>]
    IN  IF best_list = <<>> THEN None
        ELSE MaxByScore(best_list, 2, best_list[1])

\* a variant with "score > min_score", which C3Theorem tells from the code
StringFuzzyMatchStrict(match, choices, min_score) ==
    LET one == extractOne(match, choices)
    IN  IF one[2] * AccDen > min_score THEN Some(one[1]) ELSE None

\* min_score is the numerator of min_score / AccDen
_string_fuzzy_match(match, choices, min_score) ==
    LET one == extractOne(match, choices)
        choice == one[1]
        sc == one[2]
    IN  IF sc * AccDen >= min_score THEN Some(choice) ELSE None

(***************************************************************************)
(* The numeric resolver                                                    *)
(***************************************************************************)
\* distance <= min_distance, min_distance being float("inf") when None
LeqMinDistance(distance, min_distance) ==
    min_distance = None \/ distance <= min_distance[1]

\* one pass of the loop body; st = [min_distance, min_val, min_diff];
\* tolerance is the numerator of tolerance / AccDen
NumericLoopBody(match, num, tolerance, st) ==
    LET distance == Abs(match - num)
    IN  IF distance * AccDen <= tolerance /\ LeqMinDistance(distance, st.min_distance)
        THEN [st EXCEPT !.min_diff = Some(distance), !.min_val = Some(num)]
        ELSE st

RECURSIVE NumericLoop(_, _, _, _, _)
NumericLoop(match, choices, tolerance, i, st) ==
    IF i > Len(choices) THEN st
    ELSE NumericLoop(match, choices, tolerance, i + 1,
                     NumericLoopBody(match, choices[i], tolerance, st))

_numeric_fuzzy_match(match, choices, accuracy) ==
    LET inv_accuracy == AccDen - accuracy
        tolerance == match * inv_accuracy
    IN  NumericLoop(match, choices, tolerance, 1,
                    [min_distance |-> None, min_val |-> None, min_diff |-> None]).min_val

(***************************************************************************)
(* The datetime resolver                                                   *)
(***************************************************************************)
\* a variant with "distance <= min_distance", which C6Theorem tells from the
\* code
DatetimeLoopBodyLatest(match, date, tolerance, st) ==
    LET distance == Abs(match - date)
    IN  IF distance <= tolerance
           /\ (st.min_distance = None \/ distance <= st.min_distance[1])
        THEN [min_distance |-> Some(distance), min_date |-> Some(date)]
        ELSE st

DatetimeLoopBody(match, date, tolerance, st) ==
    LET distance == Abs(match - date)
    IN  IF distance <= tolerance
           /\ (st.min_distance = None \/ distance < st.min_distance[1])
        THEN [min_distance |-> Some(distance), min_date |-> Some(date)]
        ELSE st

RECURSIVE DatetimeLoop(_, _, _, _, _)
DatetimeLoop(match, choices, tolerance, i, st) ==
    IF i > Len(choices) THEN st
    ELSE DatetimeLoop(match, choices, tolerance, i + 1,
                      DatetimeLoopBody(match, choices[i], tolerance, st))

_datetime_fuzzy_match(match, choices, tolerance) ==
    DatetimeLoop(match, choices, tolerance, 1,
                 [min_distance |-> None, min_date |-> None]).min_date

\* both arguments non-empty (np.amin raises ValueError on an empty array)
_compute_time_range(l, r) ==
    LET left_delta == SetMax(Range(l)) - SetMin(Range(l))
        right_delta == SetMax(Range(r)) - SetMin(Range(r))
    IN  Min2(left_delta, right_delta)

\* (1.0 - accuracy) * timedelta64: numpy keeps a timedelta64, a whole number
\* of timestamp units, cutting the fraction off
TimeTolerance(left_keys, choices, accuracy) ==
    ((AccDen - accuracy) * _compute_time_range(left_keys, choices)) \div AccDen

\* the index _join_datetime_col gives the left table: one match per left key
DatetimeMatches(left_keys, choices, accuracy) ==
    LET time_tolerance == TimeTolerance(left_keys, choices, accuracy)
    IN  [i \in 1..Len(left_keys) |->
            _datetime_fuzzy_match(left_keys[i], choices, time_tolerance)]

(***************************************************************************)
(* The type selector                                                       *)
(***************************************************************************)
_STRING_JOIN_TYPES == {"CategoricalData", "Text", "Boolean"}
_NUMERIC_JOIN_TYPES == {"Integer", "Float"}
_DATETIME_JOIN_TYPES == {"DateTime"}
_SUPPORTED_TYPES ==
    _STRING_JOIN_TYPES \cup _NUMERIC_JOIN_TYPES \cup _DATETIME_JOIN_TYPES
\* a semantic type the primitive does not know
OtherTypes == {"Attribute"}
AllTypes == _SUPPORTED_TYPES \cup OtherTypes

\* dataset.metadata[resource_id] is the sequence of the resource's column
\* metadata, [name, semantic_types]; the first column of that name decides
_get_column_semantic_type(dataset, resource_id, col_name) ==
    LET cols == dataset.metadata[resource_id]
        hits == {i \in 1..Len(cols) : cols[i].name = col_name}
    IN  IF hits = {} THEN {} ELSE cols[SetMin(hits)].semantic_types

\* a variant whose text-based coercion leaves Boolean out, which C7Theorem
\* tells from the code
JoinTypeOfNoBoolean(left_types, right_types) ==
    LET exact == (left_types \cap _SUPPORTED_TYPES) \cap (right_types \cap _SUPPORTED_TYPES)
    IN  IF exact # {} THEN {Some(t) : t \in exact}
        ELSE IF left_types \cap _NUMERIC_JOIN_TYPES # {}
                /\ right_types \cap _NUMERIC_JOIN_TYPES # {}
             THEN {Some("Float")}
        ELSE IF left_types \cap {"CategoricalData", "Text"} # {}
                /\ right_types \cap {"CategoricalData", "Text"} # {}
             THEN {Some("Text")}
        ELSE {None}

\* The set of values the selector may return for two tag sets.  The code
\* returns list(set)[0]: with several common tags, which one comes first is
\* the set's iteration order (string hashing), so any of them may.
JoinTypeOf(left_types, right_types) ==
    LET supported_left_types == left_types \cap _SUPPORTED_TYPES
        supported_right_types == right_types \cap _SUPPORTED_TYPES
        exact == supported_left_types \cap supported_right_types
    IN  IF exact # {} THEN {Some(t) : t \in exact}
        ELSE IF left_types \cap _NUMERIC_JOIN_TYPES # {}
                /\ right_types \cap _NUMERIC_JOIN_TYPES # {}
             THEN {Some("Float")}
        ELSE IF left_types \cap _STRING_JOIN_TYPES # {}
                /\ right_types \cap _STRING_JOIN_TYPES # {}
             THEN {Some("Text")}
        ELSE {None}

_get_join_semantic_type(l, l_resource_id, l_col, r, r_resource_id, r_col) ==
    JoinTypeOf(_get_column_semantic_type(l, l_resource_id, l_col),
               _get_column_semantic_type(r, r_resource_id, r_col))

(***************************************************************************)
(* Tables (pandas DataFrames)                                              *)
(*   [columns: the column names in order,                                  *)
(*    index: one Optional label per row, index_name: Optional name,        *)
(*    data: one record per row, column name -> cell]                       *)
(***************************************************************************)
RangeIndex(n) == [i \in 1..n |-> Some(i - 1)]
Column(df, col) == [i \in 1..Len(df.data) |-> df.data[i][col]]

RECURSIVE UniqueFrom(_, _, _)
UniqueFrom(s, i, acc) ==
    IF i > Len(s) THEN acc
    ELSE UniqueFrom(s, i + 1, IF s[i] \in Range(acc) THEN acc ELSE Append(acc, s[i]))
\* Series.unique(): the distinct values in order of first appearance
Unique(s) == UniqueFrom(s, 1, <<>>)

Without(cols, col) == SelectSeq(cols, LAMBDA c : c # col)
Restrict(row, cols) == [c \in Range(cols) |-> row[c]]

\* df.drop(columns=col), a new frame; col is a column of df
DropColumn(df, col) ==
    LET cols == Without(df.columns, col)
    IN  [df EXCEPT !.columns = cols,
                   !.data = [i \in 1..Len(df.data) |-> Restrict(df.data[i], cols)]]

\* df.set_index(col), a new frame
SetIndex(df, col) ==
    LET cols == Without(df.columns, col)
    IN  [columns |-> cols,
         index |-> [i \in 1..Len(df.data) |-> Some(df.data[i][col])],
         index_name |-> Some(col),
         data |-> [i \in 1..Len(df.data) |-> Restrict(df.data[i], cols)]]

\* a variant that renames nothing, which C9Theorem tells from the code
SuffixedNever(cols, others, suffix) == cols

Suffixed(cols, others, suffix) ==
    [i \in 1..Len(cols) |->
        IF cols[i] \in Range(others) THEN cols[i] \o suffix ELSE cols[i]]

\* one row of the join: the left row's cells then the right row's, under
\* the joined frame's column names
JoinedRow(ldf, lrow, rdf, rrow, lsuffix, rsuffix) ==
    LET lnames == Suffixed(ldf.columns, rdf.columns, lsuffix)
        rnames == Suffixed(rdf.columns, ldf.columns, rsuffix)
    IN  [c \in Range(lnames) \cup Range(rnames) |->
            IF c \in Range(lnames)
            THEN lrow[ldf.columns[CHOOSE i \in 1..Len(lnames) : lnames[i] = c]]
            ELSE rrow[rdf.columns[CHOOSE i \in 1..Len(rnames) : rnames[i] = c]]]

RECURSIVE JoinPairsFirst(_, _, _)
\* a variant that pairs a left row with the first right row of its label
\* only, which C1Theorem tells from the code
JoinPairsFirst(ldf, rdf, i) ==
    IF i > Len(ldf.data) THEN <<>>
    ELSE LET js == SelectSeq([j \in 1..Len(rdf.data) |-> j],
                             LAMBDA j : ldf.index[i] # None
                                        /\ rdf.index[j] = ldf.index[i])
         IN  (IF js = <<>> THEN <<>> ELSE <<<<i, js[1]>>>>)
                \o JoinPairsFirst(ldf, rdf, i + 1)

RECURSIVE JoinPairsFrom(_, _, _)
\* the pairs <<i, j>> of an inner join on the index, in the left frame's
\* row order and under one left row in the right frame's: equal labels,
\* and a missing label (None, NaN) pairs with no right label
JoinPairsFrom(ldf, rdf, i) ==
    IF i > Len(ldf.data) THEN <<>>
    ELSE LET js == SelectSeq([j \in 1..Len(rdf.data) |-> j],
                             LAMBDA j : ldf.index[i] # None
                                        /\ rdf.index[j] = ldf.index[i])
         IN  [k \in 1..Len(js) |-> <<i, js[k]>>] \o JoinPairsFrom(ldf, rdf, i + 1)

\* ldf.join(rdf, lsuffix=..., rsuffix=..., how='inner')
DataFrameJoin(ldf, rdf, lsuffix, rsuffix) ==
    LET pairs == JoinPairsFrom(ldf, rdf, 1)
    IN  [columns |-> Suffixed(ldf.columns, rdf.columns, lsuffix)
                        \o Suffixed(rdf.columns, ldf.columns, rsuffix),
         index |-> [k \in 1..Len(pairs) |-> ldf.index[pairs[k][1]]],
         index_name |-> IF ldf.index_name = rdf.index_name
                        THEN ldf.index_name ELSE None,
         data |-> [k \in 1..Len(pairs) |->
                     JoinedRow(ldf, ldf.data[pairs[k][1]],
                               rdf, rdf.data[pairs[k][2]], lsuffix, rsuffix)]]

RECURSIVE SortOrderFrom(_, _, _)
\* the row positions in ascending order of keys, equal keys in their
\* original order
SortOrderFrom(keys, i, acc) ==
    IF i > Len(keys) THEN acc
    ELSE LET p == Cardinality({k \in 1..Len(acc) : keys[acc[k]] <= keys[i]})
         IN  SortOrderFrom(keys, i + 1,
                 SubSeq(acc, 1, p) \o <<i>> \o SubSeq(acc, p + 1, Len(acc)))

\* a variant that leaves the rows as they are, which C8Theorem tells from
\* the code
SortValuesUnsorted(df, col) == df

\* df.sort_values(by=[col]); col is a column of df
SortValues(df, col) ==
    LET order == SortOrderFrom(Column(df, col), 1, <<>>)
    IN  [df EXCEPT !.index = [k \in 1..Len(order) |-> df.index[order[k]]],
                   !.data = [k \in 1..Len(order) |-> df.data[order[k]]]]

\* df.reset_index(drop=True)
ResetIndex(df) ==
    [df EXCEPT !.index = RangeIndex(Len(df.data)), !.index_name = None]

(***************************************************************************)
(* The join routines.  Each gives the set of its possible outcomes,        *)
(*   [error: Optional exception, left_df: the caller's left frame as the   *)
(*    routine leaves it (it assigns to it in place), joined: Optional,     *)
(*    calls: the resolver calls it made, in order]                         *)
(***************************************************************************)
Exception(type) == Some([type |-> type])
Raised(type, left_df, calls) ==
    [error |-> Exception(type), left_df |-> left_df, joined |-> None,
     calls |-> calls]
Returned(left_df, j, calls) ==
    [error |-> None, left_df |-> left_df, joined |-> Some(j), calls |-> calls]
ResolverCalls(fn, args) == [i \in 1..Len(args) |-> [fn |-> fn, arg |-> Some(args[i])]]

\* "sort on the d3m index if there, otherwise use the joined column", then
\* reset_index.  sort_values(by=[left_col]) finds left_col both a column and
\* the name of the index when the two join columns share their name: pandas
\* then sorts by the column (with a warning) or raises ValueError, by version.
SortAndReset(left_df, j, left_col, calls) ==
    IF "d3mIndex" \in Range(j.columns)
    THEN {Returned(left_df, ResetIndex(SortValues(j, "d3mIndex")), calls)}
    ELSE IF left_col \notin Range(j.columns)
    THEN {Raised("KeyError", left_df, calls)}
    ELSE {Returned(left_df, ResetIndex(SortValues(j, left_col)), calls)}
         \cup (IF j.index_name = Some(left_col)
               THEN {Raised("ValueError", left_df, calls)} ELSE {})

_join_string_col(left_df, left_col, right_df, right_col, accuracy) ==
    IF "d3mIndex" \notin Range(right_df.columns)
    THEN {Raised("KeyError", left_df, <<>>)}
    ELSE
    LET right_1 == DropColumn(right_df, "d3mIndex")
        left_keys == Unique(Column(left_df, left_col))
        right_keys == Unique(Column(right_1, right_col))
    IN  \* extractOne gives None without choices, and unpacking it raises
        IF left_keys # <<>> /\ right_keys = <<>>
        THEN {Raised("TypeError", left_df,
                     ResolverCalls("_string_fuzzy_match", SubSeq(left_keys, 1, 1)))}
        ELSE
        LET matches == [left_key \in Range(left_keys) |->
                           _string_fuzzy_match(left_key, right_keys,
                                               accuracy * ScoreScale)]
            left_1 == [left_df EXCEPT
                          !.index = [i \in 1..Len(left_df.data) |->
                                        matches[left_df.data[i][left_col]]],
                          !.index_name = Some(left_col)]
            right_2 == SetIndex(right_1, right_col)
        IN  SortAndReset(left_1, DataFrameJoin(left_1, right_2, "_1", "_2"), left_col,
                         ResolverCalls("_string_fuzzy_match", left_keys))

_join_numeric_col(left_df, left_col, right_df, right_col, accuracy) ==
    IF "d3mIndex" \notin Range(right_df.columns)
    THEN {Raised("KeyError", left_df, <<>>)}
    ELSE
    LET right_1 == DropColumn(right_df, "d3mIndex")
        choices == Unique(Column(right_1, right_col))
        left_1 == [left_df EXCEPT
                      !.index = [i \in 1..Len(left_df.data) |->
                                    _numeric_fuzzy_match(left_df.data[i][left_col],
                                                         choices, accuracy)],
                      !.index_name = Some(left_col)]
        right_2 == SetIndex(right_1, right_col)
    IN  SortAndReset(left_1, DataFrameJoin(left_1, right_2, "_1", "_2"), left_col,
                     ResolverCalls("_numeric_fuzzy_match", Column(left_df, left_col)))

\* dateutil's parser.parse on the date strings of the model:
\* 0 "1970-01-01", 1 "1970-01-02", 2 "1970-01-05", 3 "Jan 1 1970"
ParseDate(dt) == <<0, 1, 4, 0>>[dt + 1]
DateStrs == {0, 1, 2, 3}

\* the join of a datetime index with an index of date strings: pandas
\* converts the strings to timestamps
ToDatetimeIndex(df) ==
    [df EXCEPT !.index = [i \in 1..Len(df.index) |-> Some(ParseDate(df.index[i][1]))]]

_join_datetime_col(left_df, left_col, right_df, right_col, accuracy) ==
    IF "d3mIndex" \notin Range(right_df.columns)
    THEN {Raised("KeyError", left_df, <<>>)}
    ELSE
    LET right_1 == DropColumn(right_df, "d3mIndex")
        raw == Unique(Column(right_1, right_col))
        choices == [i \in 1..Len(raw) |-> ParseDate(raw[i])]
        left_keys == [i \in 1..Len(left_df.data) |->
                         ParseDate(left_df.data[i][left_col])]
    IN  \* _compute_time_range: np.amin of an empty array raises
        IF left_keys = <<>> \/ choices = <<>>
        THEN {Raised("ValueError", left_df, <<>>)}
        ELSE
        LET left_1 == [left_df EXCEPT
                          !.index = DatetimeMatches(left_keys, choices, accuracy),
                          !.index_name = None]
            right_2 == SetIndex(right_1, right_col)
        IN  SortAndReset(left_1,
                         DataFrameJoin(left_1, ToDatetimeIndex(right_2), "_1", "_2"),
                         left_col,
                         ResolverCalls("_datetime_fuzzy_match", left_keys))

(***************************************************************************)
(* produce, step by step                                                   *)
(***************************************************************************)
InvalidArgument(message) ==
    Some([type |-> "InvalidArgumentValueError", message |-> message])

\* lines 108-117: d3m's get_tabular_resource(dataset, None) gives the
\* dataset's entry-point table, dataset.entry, or raises ValueError
GetTabularResource ==
    /\ pc = "start"
    /\ IF left.entry = None
       THEN /\ error' = InvalidArgument("Failure to find tabular resource in left dataset")
            /\ pc' = "raised"
            /\ UNCHANGED <<left_resource_id, right_resource_id>>
       ELSE IF right.entry = None
       THEN /\ error' = InvalidArgument("Failure to find tabular resource in right dataset")
            /\ pc' = "raised"
            /\ left_resource_id' = left.entry
            /\ UNCHANGED right_resource_id
       ELSE /\ left_resource_id' = left.entry
            /\ right_resource_id' = right.entry
            /\ pc' = "accuracy"
            /\ UNCHANGED error
    /\ UNCHANGED <<left, right, hyperparams, score, join_type, joined,
                   result_dataset, log, call, ret>>

\* a variant that lets the accuracy 0 through, which C2Theorem tells from
\* the code
CheckAccuracyBelowZero ==
    /\ pc = "accuracy"
    /\ LET accuracy == hyperparams.accuracy
       IN  IF accuracy < 0 \/ accuracy > AccDen
           THEN /\ error' = InvalidArgument("accuracy is out of range")
                /\ pc' = "raised"
           ELSE /\ pc' = "select"
                /\ UNCHANGED error
    /\ UNCHANGED <<left, right, hyperparams, score, left_resource_id,
                   right_resource_id, join_type, joined, result_dataset, log, call, ret>>

\* lines 119-121
CheckAccuracy ==
    /\ pc = "accuracy"
    /\ LET accuracy == hyperparams.accuracy
       IN  IF accuracy <= 0 \/ accuracy > AccDen
           THEN /\ error' = InvalidArgument("accuracy is out of range")
                /\ pc' = "raised"
           ELSE /\ pc' = "select"
                /\ UNCHANGED error
    /\ UNCHANGED <<left, right, hyperparams, score, left_resource_id,
                   right_resource_id, join_type, joined, result_dataset, log, call, ret>>

\* lines 123-127
SelectJoinType ==
    /\ pc = "select"
    /\ join_type' \in _get_join_semantic_type(left, left_resource_id[1],
                                              hyperparams.left_col,
                                              right, right_resource_id[1],
                                              hyperparams.right_col)
    /\ pc' = "dispatch"
    /\ UNCHANGED <<left, right, hyperparams, score, left_resource_id,
                   right_resource_id, joined, result_dataset, error, log, call, ret>>

\* what a join routine's outcome o does to produce's state: the left frame
\* is the left dataset's own resource, assigned to in place
Joined(routine, o) ==
    /\ left' = [left EXCEPT !.resources[left_resource_id[1]] = o.left_df]
    /\ joined' = o.joined
    /\ error' = o.error
    /\ pc' = IF o.error = None THEN "result" ELSE "raised"
    /\ log' = log \o <<[fn |-> routine, arg |-> None]>> \o o.calls
    /\ UNCHANGED <<right, hyperparams, score, left_resource_id,
                   right_resource_id, join_type, result_dataset, call, ret>>

left_df == left.resources[left_resource_id[1]]
right_df == right.resources[right_resource_id[1]]

\* lines 129-130
JoinString ==
    /\ pc = "dispatch"
    /\ join_type # None /\ join_type[1] \in _STRING_JOIN_TYPES
    /\ \E o \in _join_string_col(left_df, hyperparams.left_col, right_df,
                                 hyperparams.right_col, hyperparams.accuracy) :
          Joined("_join_string_col", o)

\* lines 131-132
JoinNumeric ==
    /\ pc = "dispatch"
    /\ join_type # None /\ join_type[1] \in _NUMERIC_JOIN_TYPES
    /\ \E o \in _join_numeric_col(left_df, hyperparams.left_col, right_df,
                                  hyperparams.right_col, hyperparams.accuracy) :
          Joined("_join_numeric_col", o)

\* lines 133-134
JoinDatetime ==
    /\ pc = "dispatch"
    /\ join_type # None /\ join_type[1] \in _DATETIME_JOIN_TYPES
    /\ \E o \in _join_datetime_col(left_df, hyperparams.left_col, right_df,
                                   hyperparams.right_col, hyperparams.accuracy) :
          Joined("_join_datetime_col", o)

\* lines 135-136
RaiseUnsupported ==
    /\ pc = "dispatch"
    /\ join_type = None
    /\ error' = InvalidArgument("join not surpported on type")
    /\ pc' = "raised"
    /\ UNCHANGED <<left, right, hyperparams, score, left_resource_id,
                   right_resource_id, join_type, joined, result_dataset, log, call, ret>>

\* a variant that puts the joined table under every other id, which
\* C10Theorem tells from the code
resource_map_others(l, l_resource_id, j) ==
    [resource_id \in DOMAIN l.resources |->
        IF resource_id # l_resource_id THEN j ELSE l.resources[resource_id]]

\* lines 138-145: the new dataset's resources
resource_map(l, l_resource_id, j) ==
    [resource_id \in DOMAIN l.resources |->
        IF resource_id = l_resource_id THEN j ELSE l.resources[resource_id]]

\* lines 138-147
BuildResult ==
    /\ pc = "result"
    /\ result_dataset' = Some(resource_map(left, left_resource_id[1], joined[1]))
    /\ pc' = "done"
    /\ UNCHANGED <<left, right, hyperparams, score, left_resource_id,
                   right_resource_id, join_type, joined, error, log, call, ret>>

(***************************************************************************)
(* Resolver calls: one call of a resolver on drawn arguments               *)
(***************************************************************************)
NoCall == [fn |-> "none"]
NoRet == [error |-> None, matches |-> <<>>, time_tolerance |-> 0]

\* lines 214-223, called as line 240 calls it; without choices extractOne
\* gives None and "choice, score = None" raises TypeError
CallStringFuzzyMatch ==
    /\ pc = "call"
    /\ call.fn = "string"
    /\ ret' = IF call.choices = <<>>
              THEN [NoRet EXCEPT !.error = Exception("TypeError")]
              ELSE [NoRet EXCEPT !.matches =
                       <<_string_fuzzy_match(call.match, call.choices,
                                             call.accuracy * ScoreScale)>>]
    /\ pc' = "returned"
    /\ UNCHANGED <<left, right, hyperparams, score, left_resource_id,
                   right_resource_id, join_type, joined, result_dataset, error, log, call>>

\* lines 260-275
CallNumericFuzzyMatch ==
    /\ pc = "call"
    /\ call.fn = "numeric"
    /\ ret' = [NoRet EXCEPT !.matches =
                  <<_numeric_fuzzy_match(call.match, call.choices, call.accuracy)>>]
    /\ pc' = "returned"
    /\ UNCHANGED <<left, right, hyperparams, score, left_resource_id,
                   right_resource_id, join_type, joined, result_dataset, error, log, call>>

\* lines 324-326 on parsed keys, with lines 343-369
CallDatetimeFuzzyMatch ==
    /\ pc = "call"
    /\ call.fn = "datetime"
    /\ ret' = IF call.left_keys = <<>> \/ call.choices = <<>>
              THEN [NoRet EXCEPT !.error = Exception("ValueError")]
              ELSE [error |-> None,
                    matches |-> DatetimeMatches(call.left_keys, call.choices,
                                                call.accuracy),
                    time_tolerance |-> TimeTolerance(call.left_keys, call.choices,
                                                     call.accuracy)]
    /\ pc' = "returned"
    /\ UNCHANGED <<left, right, hyperparams, score, left_resource_id,
                   right_resource_id, join_type, joined, result_dataset, error, log, call>>

(***************************************************************************)
(* Inputs                                                                  *)
(***************************************************************************)
StrVals == {0, 1, 2}          \* 0 "" (scores 0 with everything), 1 and 2
JoinNumVals == {-2, 1, 2}
KeyVals(kind) ==
    CASE kind = "string" -> StrVals
      [] kind = "numeric" -> JoinNumVals
      [] kind = "datetime" -> DateStrs

\* the scorer on StrVals, s being the score of the two non-empty strings
ScoreTable(s) ==
    [p \in StrVals \X StrVals |->
        IF p[1] = 0 \/ p[2] = 0 THEN 0 ELSE IF p[1] = p[2] THEN 100 ELSE s]
ScoreTables(kind) ==
    IF kind = "string" THEN {ScoreTable(s) : s \in {0, 75, 100}} ELSE {ScoreTable(0)}

\* the d3mIndex values of n rows: ascending and descending
IndexOrders(n) ==
    {[i \in 1..n |-> i], [i \in 1..n |-> n + 1 - i]}

\* the left table: d3mIndex (if any), the join column alpha, and bravo
LeftTable(hasIndex, d3mIndex, keys) ==
    [columns |-> (IF hasIndex THEN <<"d3mIndex">> ELSE <<>>) \o <<"alpha", "bravo">>,
     index |-> RangeIndex(Len(keys)),
     index_name |-> None,
     data |-> [i \in 1..Len(keys) |->
                 IF hasIndex
                 THEN ("d3mIndex" :> d3mIndex[i]) @@ ("alpha" :> keys[i])
                        @@ ("bravo" :> 10 + i)
                 ELSE ("alpha" :> keys[i]) @@ ("bravo" :> 10 + i)]]

\* the right table: d3mIndex (if any), the join column, bravo and charlie
RightTable(hasIndex, right_col, keys) ==
    [columns |-> (IF hasIndex THEN <<"d3mIndex">> ELSE <<>>)
                    \o <<right_col, "bravo", "charlie">>,
     index |-> RangeIndex(Len(keys)),
     index_name |-> None,
     data |-> [j \in 1..Len(keys) |->
                 IF hasIndex
                 THEN ("d3mIndex" :> j) @@ (right_col :> keys[j])
                        @@ ("bravo" :> 20 + j) @@ ("charlie" :> 30 + j)
                 ELSE (right_col :> keys[j])
                        @@ ("bravo" :> 20 + j) @@ ("charlie" :> 30 + j)]]

LeftTables(kind, n) ==
    {LeftTable(TRUE, d, k) :
        <<d, k>> \in UNION {IndexOrders(m) \X [1..m -> KeyVals(kind)] : m \in 0..n}}
    \cup {LeftTable(FALSE, <<>>, k) : k \in SeqsUpTo(KeyVals(kind), n)}

RightTables(kind, right_col, n) ==
    {RightTable(h, right_col, k) : h \in BOOLEAN, k \in SeqsUpTo(KeyVals(kind), n)}

\* a resource that is no table of the join
OtherResource(v) ==
    [columns |-> <<"image">>, index |-> RangeIndex(1), index_name |-> None,
     data |-> <<[image |-> v]>>]

ColumnsMetadata(table, join_col, types) ==
    [i \in 1..Len(table.columns) |->
        [name |-> table.columns[i],
         semantic_types |-> IF table.columns[i] = join_col THEN types
                            ELSE IF table.columns[i] = "d3mIndex" THEN {"Integer"}
                            ELSE {"Float"}]]

\* a dataset in one of three layouts: the table alone, the table beside
\* another resource, no table
Dataset(layout, other_id, other, table, join_col, types) ==
    CASE layout = "single" ->
            [resources |-> ("0" :> table), entry |-> Some("0"),
             metadata |-> ("0" :> ColumnsMetadata(table, join_col, types))]
      [] layout = "multi" ->
            [resources |-> (other_id :> other) @@ ("learningData" :> table),
             entry |-> Some("learningData"),
             metadata |-> (other_id :> <<>>)
                            @@ ("learningData" :> ColumnsMetadata(table, join_col, types))]
      [] layout = "none" ->
            [resources |-> (other_id :> other), entry |-> None,
             metadata |-> (other_id :> <<>>)]

LeftDataset(layout, table, types) ==
    Dataset(layout, "0", OtherResource(1), table, "alpha", types)
RightDataset(layout, table, right_col, types) ==
    Dataset(layout, "1", OtherResource(2), table, right_col, types)

(***************************************************************************)
(* Spec: produce, from the call to its end                                 *)
(***************************************************************************)
\* the tags of the two join columns with the kind of data such columns hold
ProduceTypes ==
    {[l |-> {"Text"}, r |-> {"Text"}, kind |-> "string"],
     [l |-> {"CategoricalData", "Text", "Attribute"},
      r |-> {"CategoricalData", "Text"}, kind |-> "string"],
     [l |-> {"Boolean"}, r |-> {"Text"}, kind |-> "string"],
     [l |-> {"Integer"}, r |-> {"Float"}, kind |-> "numeric"],
     [l |-> {"Float", "Attribute"}, r |-> {"Float"}, kind |-> "numeric"],
     [l |-> {"DateTime"}, r |-> {"DateTime"}, kind |-> "datetime"],
     [l |-> {"DateTime"}, r |-> {"Text"}, kind |-> "string"],
     [l |-> {"Attribute"}, r |-> {"Text"}, kind |-> "string"],
     [l |-> {}, r |-> {}, kind |-> "string"]}

\* the tables of a produce call: two left rows out of d3mIndex order
ProduceLeftKeys(kind) ==
    CASE kind = "string" -> {<<2, 1>>, <<0, 2>>}
      [] kind = "numeric" -> {<<2, 1>>, <<-2, 2>>}
      [] kind = "datetime" -> {<<1, 2>>, <<3, 2>>}
ProduceRightKeys(kind) ==
    CASE kind = "string" -> {<<1, 2>>, <<2, 2>>}
      [] kind = "numeric" -> {<<1, 2>>, <<2, 2>>}
      [] kind = "datetime" -> {<<0, 2>>, <<2, 3>>}
Layouts == {"single", "multi", "none"}

InitLocals ==
    /\ left_resource_id = None
    /\ right_resource_id = None
    /\ join_type = None
    /\ joined = None
    /\ result_dataset = None
    /\ error = None
    /\ log = <<>>
    /\ call = NoCall
    /\ ret = NoRet

Init ==
    /\ \E t \in ProduceTypes, right_col \in {"alpha", "xray"} :
          /\ \E lk \in ProduceLeftKeys(t.kind), lh \in BOOLEAN, ll \in Layouts :
                left = LeftDataset(ll, LeftTable(lh, <<2, 1>>, lk), t.l)
          /\ \E rk \in ProduceRightKeys(t.kind), rh \in BOOLEAN, rl \in Layouts :
                right = RightDataset(rl, RightTable(rh, right_col, rk), right_col, t.r)
          /\ \E accuracy \in ValidAccuracies \cup InvalidAccuracies :
                hyperparams = [left_col |-> "alpha", right_col |-> right_col,
                               accuracy |-> accuracy]
          /\ score \in ScoreTables(t.kind)
    /\ pc = "start"
    /\ InitLocals

Next ==
    \/ GetTabularResource
    \/ CheckAccuracy
    \/ SelectJoinType
    \/ JoinString
    \/ JoinNumeric
    \/ JoinDatetime
    \/ RaiseUnsupported
    \/ BuildResult

Spec == Init /\ [][Next]_vars

(***************************************************************************)
(* SpecJoin: one join routine on drawn tables                              *)
(***************************************************************************)
JoinAccuracies == {AccDen \div 2, AccDen}
JoinKinds ==
    {[type |-> "Text", kind |-> "string"],
     [type |-> "Float", kind |-> "numeric"],
     [type |-> "DateTime", kind |-> "datetime"]}

InitJoin ==
    /\ \E t \in JoinKinds, right_col \in {"alpha", "xray"} :
          /\ \E table \in LeftTables(t.kind, MaxLeftRows) :
                left = LeftDataset("single", table, {t.type})
          /\ \E table \in RightTables(t.kind, right_col, MaxRightRows) :
                right = RightDataset("single", table, right_col, {t.type})
          /\ \E accuracy \in JoinAccuracies :
                hyperparams = [left_col |-> "alpha", right_col |-> right_col,
                               accuracy |-> accuracy]
          /\ score \in ScoreTables(t.kind)
          /\ join_type = Some(t.type)
    /\ pc = "dispatch"
    /\ left_resource_id = Some("0")
    /\ right_resource_id = Some("0")
    /\ joined = None
    /\ result_dataset = None
    /\ error = None
    /\ log = <<>>
    /\ call = NoCall
    /\ ret = NoRet

NextJoin == JoinString \/ JoinNumeric \/ JoinDatetime

SpecJoin == InitJoin /\ [][NextJoin]_vars

(***************************************************************************)
(* SpecSelect: the type selector on every pair of tag sets                 *)
(***************************************************************************)
InitSelect ==
    /\ \E l \in SUBSET AllTypes, r \in SUBSET AllTypes :
          /\ left = LeftDataset("single", LeftTable(TRUE, <<>>, <<>>), l)
          /\ right = RightDataset("single", RightTable(TRUE, "xray", <<>>), "xray", r)
    /\ hyperparams = [left_col |-> "alpha", right_col |-> "xray", accuracy |-> AccDen]
    /\ score = ScoreTable(0)
    /\ pc = "select"
    /\ left_resource_id = Some("0")
    /\ right_resource_id = Some("0")
    /\ join_type = None
    /\ joined = None
    /\ result_dataset = None
    /\ error = None
    /\ log = <<>>
    /\ call = NoCall
    /\ ret = NoRet

NextSelect == SelectJoinType

SpecSelect == InitSelect /\ [][NextSelect]_vars

(***************************************************************************)
(* SpecResolve: one resolver call on drawn arguments                       *)
(***************************************************************************)
NumVals == (-MaxNum)..MaxNum
Times == 0..MaxTime

StringCalls ==
    {[fn |-> "string", match |-> m, choices |-> c, accuracy |-> a] :
        m \in StrVals, c \in DistinctSeqs(StrVals, MaxChoices), a \in ValidAccuracies}
NumericCalls ==
    {[fn |-> "numeric", match |-> m, choices |-> c, accuracy |-> a] :
        m \in NumVals, c \in DistinctSeqs(NumVals, MaxChoices), a \in ValidAccuracies}
DatetimeCalls ==
    {[fn |-> "datetime", left_keys |-> k, choices |-> c, accuracy |-> a] :
        k \in SeqsUpTo(Times, MaxLeftKeys), c \in DistinctSeqs(Times, MaxChoices),
        a \in ValidAccuracies}

InitResolve ==
    /\ call \in StringCalls \cup NumericCalls \cup DatetimeCalls
    /\ score \in IF call.fn = "string"
                 THEN [{<<call.match, call.choices[i]>> : i \in 1..Len(call.choices)}
                          -> ScoreSet]
                 ELSE {ScoreTable(0)}
    /\ ret = NoRet
    /\ pc = "call"
    /\ left = LeftDataset("none", LeftTable(TRUE, <<>>, <<>>), {})
    /\ right = RightDataset("none", RightTable(TRUE, "xray", <<>>), "xray", {})
    /\ hyperparams = [left_col |-> "alpha", right_col |-> "xray", accuracy |-> AccDen]
    /\ left_resource_id = None
    /\ right_resource_id = None
    /\ join_type = None
    /\ joined = None
    /\ result_dataset = None
    /\ error = None
    /\ log = <<>>

NextResolve ==
    \/ CallStringFuzzyMatch
    \/ CallNumericFuzzyMatch
    \/ CallDatetimeFuzzyMatch

SpecResolve == InitResolve /\ [][NextResolve]_vars

(***************************************************************************)
(* Claims about the resolvers (SpecResolve)                                *)
(***************************************************************************)
StringReturned == pc = "returned" /\ call.fn = "string" /\ call.choices # <<>>
ScoreOf(k) == score[<<call.match, call.choices[k]>>]
BestScore == SetMax({ScoreOf(k) : k \in 1..Len(call.choices)})
FirstBest == call.choices[SetMin({k \in 1..Len(call.choices) : ScoreOf(k) = BestScore})]

\* the candidate of maximum score, the first of equal maxima, when that
\* score is >= accuracy * 100, and no match otherwise
StringRule ==
    StringReturned =>
        ret.matches[1] = IF BestScore * AccDen >= call.accuracy * ScoreScale
                         THEN Some(FirstBest) ELSE None
\* at accuracy 1.0 only a candidate of score 100 is returned
StringAtOne ==
    StringReturned /\ call.accuracy = AccDen /\ ret.matches[1] # None
        => score[<<call.match, ret.matches[1][1]>>] = ScoreScale
\* the left value matches at some accuracy of (0, 1]; the resolver's
\* condition only weakens as the accuracy falls, so this is "matches as the
\* accuracy approaches 0"
MatchesNearZero ==
    \E a \in 1..AccDen :
        _string_fuzzy_match(call.match, call.choices, a * ScoreScale) # None

\* C3: the string resolver returns the candidate of maximum score (the first
\* among equal maxima) when that score is >= accuracy * 100 and no match
\* otherwise; at accuracy 1.0 only a candidate scoring 100 is returned; as the
\* accuracy approaches 0 a left value gets a match exactly when its best
\* score is at least 1: a left value all of whose candidates score 0 gets no
\* match at any accuracy of (0, 1].
C3Theorem ==
    /\ StringRule
    /\ StringAtOne
    /\ StringReturned => (MatchesNearZero <=> BestScore >= 1)
    /\ StringReturned /\ call.accuracy * ScoreScale <= AccDen
          => (ret.matches[1] # None <=> BestScore >= 1)

\* C3, as the claim has it: ... and as the accuracy approaches 0 every left
\* value gets some match.
C3Original ==
    /\ StringRule
    /\ StringAtOne
    /\ StringReturned => MatchesNearZero

\* C3's case: two candidates share the maximum score, which is exactly
\* accuracy * 100, and the first of them is returned
C3Witness ==
    /\ StringReturned
    /\ Len(call.choices) = 2
    /\ ScoreOf(1) = ScoreOf(2)
    /\ ScoreOf(1) * AccDen = call.accuracy * ScoreScale
    /\ ret.matches[1] = Some(call.choices[1])

NumericReturned == pc = "returned" /\ call.fn = "numeric"
\* |l - r| <= (1 - accuracy) * |l|
Qualifies(l, r, accuracy) == Abs(l - r) * AccDen <= (AccDen - accuracy) * Abs(l)

\* C4: the numeric resolver treats a candidate as qualifying exactly when
\* |left - right| <= (1 - accuracy) * |left|, for positive, zero and negative
\* left: it returns a candidate exactly when some candidate qualifies, and
\* the candidate it returns qualifies.
C4Claim ==
    NumericReturned =>
        /\ ret.matches[1] # None
              <=> \E k \in 1..Len(call.choices) :
                     Qualifies(call.match, call.choices[k], call.accuracy)
        /\ ret.matches[1] # None
              => Qualifies(call.match, ret.matches[1][1], call.accuracy)

\* the candidates within the tolerance the resolver computes
WithinTolerance ==
    {k \in 1..Len(call.choices) :
        Abs(call.match - call.choices[k]) * AccDen
            <= call.match * (AccDen - call.accuracy)}
NumDistance(k) == Abs(call.match - call.choices[k])

\* C5: the numeric resolver returns no match when no candidate is within
\* tolerance, and otherwise a candidate of minimum distance among those
\* within tolerance, the latest in scan order among those at that distance.
C5Claim ==
    NumericReturned =>
        IF WithinTolerance = {} THEN ret.matches[1] = None
        ELSE LET dmin == SetMin({NumDistance(k) : k \in WithinTolerance})
             IN  ret.matches[1] =
                    Some(call.choices[SetMax({k \in WithinTolerance :
                                                 NumDistance(k) = dmin})])

DatetimeReturned == pc = "returned" /\ call.fn = "datetime" /\ ret.error = None
TimeRange ==
    LET l == Range(call.left_keys)
        r == Range(call.choices)
    IN  Min2(SetMax(l) - SetMin(l), SetMax(r) - SetMin(r))
Duration(i, k) == Abs(call.left_keys[i] - call.choices[k])
\* duration <= (1 - accuracy) * min(range of the left, range of the right)
InTimeTolerance(i) ==
    {k \in 1..Len(call.choices) :
        Duration(i, k) * AccDen <= (AccDen - call.accuracy) * TimeRange}
Doubled(s) == [i \in 1..Len(s) |-> 2 * s[i]]

\* C6: the tolerance of a datetime join is (1 - accuracy) * min(range of the
\* left timestamps, range of the candidates), one value for all the left
\* timestamps of the join (kept in whole timestamp units, which decides the
\* same durations as the exact product); for each left timestamp the
\* resolver returns the candidate of smallest duration among those within
\* that tolerance, the earliest in scan order among equals, and no match when
\* none is within it; with all timestamps doubled (both ranges doubled, the
\* accuracy fixed) the matches are the doubled matches.
C6Theorem ==
    DatetimeReturned =>
        /\ ret.time_tolerance * AccDen <= (AccDen - call.accuracy) * TimeRange
        /\ (AccDen - call.accuracy) * TimeRange < (ret.time_tolerance + 1) * AccDen
        /\ \A i \in 1..Len(call.left_keys) :
              IF InTimeTolerance(i) = {} THEN ret.matches[i] = None
              ELSE LET dmin == SetMin({Duration(i, k) : k \in InTimeTolerance(i)})
                   IN  ret.matches[i] =
                          Some(call.choices[SetMin({k \in InTimeTolerance(i) :
                                                       Duration(i, k) = dmin})])
        /\ DatetimeMatches(Doubled(call.left_keys), Doubled(call.choices),
                           call.accuracy)
              = [i \in 1..Len(ret.matches) |->
                    IF ret.matches[i] = None THEN None
                    ELSE Some(2 * ret.matches[i][1])]

\* C6's case: a positive tolerance below the range, one left timestamp with
\* two candidates at the same smallest duration (the first is returned) and
\* another left timestamp with no candidate within the tolerance
C6Witness ==
    /\ DatetimeReturned
    /\ ret.time_tolerance > 0
    /\ ret.time_tolerance < TimeRange
    /\ \E i \in 1..Len(call.left_keys) :
          /\ Len(call.choices) = 2
          /\ Duration(i, 1) = Duration(i, 2)
          /\ ret.matches[i] = Some(call.choices[1])
    /\ \E i \in 1..Len(call.left_keys) : ret.matches[i] = None

(***************************************************************************)
(* Claims about the type selector (SpecSelect)                             *)
(***************************************************************************)
\* the tags of a dataset's column, read from its metadata
TagsOf(dataset, col) ==
    LET cols == dataset.metadata[dataset.entry[1]]
    IN  (CHOOSE c \in Range(cols) : c.name = col).semantic_types
LeftTags == TagsOf(left, hyperparams.left_col)
RightTags == TagsOf(right, hyperparams.right_col)
Recognised == {"CategoricalData", "Text", "Boolean", "Integer", "Float", "DateTime"}
NumericTags == {"Integer", "Float"}
StringTags == {"CategoricalData", "Text", "Boolean"}
Selected == pc = "dispatch"

\* C7: when the supported tags of the two join columns have no tag in
\* common, the selector returns Float if each side carries an Integer or
\* Float tag, otherwise Text if each side carries a categorical, text or
\* boolean tag, and otherwise None (unsupported): Integer with Float gives
\* Float, Boolean with Text gives Text, DateTime with Text gives None, and a
\* column with no recognised tag always gives None.
C7Theorem ==
    /\ Selected /\ (LeftTags \cap Recognised) \cap (RightTags \cap Recognised) = {}
          => join_type = IF LeftTags \cap NumericTags # {}
                            /\ RightTags \cap NumericTags # {}
                         THEN Some("Float")
                         ELSE IF LeftTags \cap StringTags # {}
                                 /\ RightTags \cap StringTags # {}
                         THEN Some("Text")
                         ELSE None
    /\ Selected /\ LeftTags = {"Integer"} /\ RightTags = {"Float"}
          => join_type = Some("Float")
    /\ Selected /\ LeftTags = {"Boolean"} /\ RightTags = {"Text"}
          => join_type = Some("Text")
    /\ Selected /\ LeftTags = {"DateTime"} /\ RightTags = {"Text"}
          => join_type = None
    /\ Selected /\ (LeftTags \cap Recognised = {} \/ RightTags \cap Recognised = {})
          => join_type = None

\* C7's case: Boolean with Text, no tag in common, selected as Text
C7Witness ==
    /\ Selected
    /\ LeftTags = {"Boolean"}
    /\ RightTags = {"Text"}
    /\ join_type = Some("Text")

(***************************************************************************)
(* Claims about the join routines (SpecJoin)                               *)
(***************************************************************************)
JoinDone == pc = "result"
Mode ==
    IF join_type[1] \in StringTags THEN "string"
    ELSE IF join_type[1] \in NumericTags THEN "numeric" ELSE "datetime"
LeftValue(i) == left_df.data[i][hyperparams.left_col]
RightValue(j) == right_df.data[j][hyperparams.right_col]
\* the join value as the mode compares it
JoinValue(v) == IF Mode = "datetime" THEN ParseDate(v) ELSE v
LeftParsed == [i \in 1..Len(left_df.data) |-> ParseDate(LeftValue(i))]
RightChoices == Unique([j \in 1..Len(right_df.data) |-> RightValue(j)])
RightParsed == [k \in 1..Len(RightChoices) |-> ParseDate(RightChoices[k])]
\* what each left row's join value resolves to
ResolvedAll ==
    IF Mode = "string"
    THEN [i \in 1..Len(left_df.data) |->
             _string_fuzzy_match(LeftValue(i), RightChoices,
                                 hyperparams.accuracy * ScoreScale)]
    ELSE IF Mode = "numeric"
    THEN [i \in 1..Len(left_df.data) |->
             _numeric_fuzzy_match(LeftValue(i), RightChoices, hyperparams.accuracy)]
    ELSE DatetimeMatches(LeftParsed, RightParsed, hyperparams.accuracy)
Resolved(i) == ResolvedAll[i]
PairsOf(resolved) ==
    {p \in (1..Len(left_df.data)) \X (1..Len(right_df.data)) :
        /\ resolved[p[1]] # None
        /\ resolved[p[1]][1] = JoinValue(RightValue(p[2]))}
MatchedPairs == PairsOf(ResolvedAll)
\* min(range of the left timestamps, range of the right timestamps)
JoinTimeRange ==
    Min2(SetMax(Range(LeftParsed)) - SetMin(Range(LeftParsed)),
         SetMax(Range(RightParsed)) - SetMin(Range(RightParsed)))
\* the mode's threshold condition on a left and a right join value
Threshold(l, r, time_range) ==
    IF Mode = "string"
    THEN score[<<l, r>>] * AccDen >= hyperparams.accuracy * ScoreScale
    ELSE IF Mode = "numeric"
    THEN Qualifies(l, r, hyperparams.accuracy)
    ELSE Abs(ParseDate(l) - ParseDate(r)) * AccDen
            <= (AccDen - hyperparams.accuracy) * time_range
\* the right table's columns that reach the output, and the output's names
RightKept ==
    SelectSeq(right_df.columns,
              LAMBDA c : c # "d3mIndex" /\ c # hyperparams.right_col)
LeftName(c) == IF c \in Range(RightKept) THEN c \o "_1" ELSE c
RightName(c) == IF c \in Range(left_df.columns) THEN c \o "_2" ELSE c
OutRows == joined[1].data
\* the output row is the left row i beside the right row j
Carries(row, i, j) ==
    /\ \A c \in Range(left_df.columns) : row[LeftName(c)] = left_df.data[i][c]
    /\ \A c \in Range(RightKept) : row[RightName(c)] = right_df.data[j][c]
\* the rows an output row was made of: row i of the left table holds 10 + i
\* in bravo and row j of the right table 30 + j in charlie
PairOf(k) == <<OutRows[k][LeftName("bravo")] - 10, OutRows[k]["charlie"] - 30>>

\* C1: in each mode the output rows of a join are exactly the pairs (left
\* row, right row) in which the left row's join value resolves to a match
\* and the match equals the right row's join value: one output row per such
\* pair and no other row; the row carries the left row's own values, its raw
\* join value among them, and the right row's values; the two join values of
\* every output row meet the mode's threshold; a left row that resolves to
\* no match is in no output row.
C1Theorem ==
    JoinDone =>
        LET resolved == ResolvedAll
            pairs == PairsOf(resolved)
            out == [k \in 1..Len(OutRows) |-> PairOf(k)]
            time_range == IF Mode = "datetime" /\ OutRows # <<>>
                          THEN JoinTimeRange ELSE 0
        IN  /\ Len(OutRows) = Cardinality(pairs)
            /\ pairs \subseteq Range(out)
            /\ \A k \in 1..Len(OutRows) :
                  /\ out[k] \in pairs
                  /\ Carries(OutRows[k], out[k][1], out[k][2])
                  /\ OutRows[k][hyperparams.left_col] = LeftValue(out[k][1])
                  /\ Threshold(LeftValue(out[k][1]), RightValue(out[k][2]), time_range)
            /\ \A i \in 1..Len(left_df.data) :
                  resolved[i] = None => \A k \in 1..Len(OutRows) : out[k][1] # i

\* C1's case: one left row resolves to no match and is dropped, the other
\* resolves to a value that differs from its own and that two right rows
\* hold, and comes out twice
C1Witness ==
    /\ JoinDone
    /\ Len(left_df.data) = 2
    /\ \E i \in 1..2 : Resolved(i) = None
    /\ \E i \in 1..2 :
          /\ <<i, 1>> \in MatchedPairs
          /\ <<i, 2>> \in MatchedPairs
          /\ LeftValue(i) # RightValue(1)
    /\ Len(OutRows) = 2
    /\ hyperparams.right_col # hyperparams.left_col

SortColumn ==
    IF "d3mIndex" \in Range(joined[1].columns) THEN "d3mIndex"
    ELSE hyperparams.left_col

\* C8: the rows of a joined table are in non-decreasing order of d3mIndex
\* when the result has that column, otherwise in non-decreasing order of the
\* left join column, and carry the dense row index 0..n-1 in that order.
C8Theorem ==
    JoinDone =>
        /\ \A k \in 1..(Len(OutRows) - 1) :
              OutRows[k][SortColumn] <= OutRows[k + 1][SortColumn]
        /\ joined[1].index = [k \in 1..Len(OutRows) |-> Some(k - 1)]
        /\ joined[1].index_name = None

\* C8's case: two output rows from two left rows that stand in the left
\* table against the sort order
C8Witness ==
    /\ JoinDone
    /\ hyperparams.right_col # hyperparams.left_col
    /\ Len(OutRows) = 2
    /\ Len(left_df.data) = 2
    /\ left_df.data[1][SortColumn] > left_df.data[2][SortColumn]
    /\ Carries(OutRows[1], 2, OutRows[1]["charlie"] - 30)
    /\ Carries(OutRows[2], 1, OutRows[2]["charlie"] - 30)

\* C9: the joined table's columns are the left table's columns in their
\* order, then the right table's columns but for d3mIndex and the right join
\* column; a name on both sides is kept twice, the left column with suffix
\* '_1' and the right with '_2', each with its own table's values; a name on
\* one side only is kept as it is.
C9Theorem ==
    JoinDone =>
        /\ joined[1].columns =
              [n \in 1..Len(left_df.columns) |-> LeftName(left_df.columns[n])]
              \o [n \in 1..Len(RightKept) |-> RightName(RightKept[n])]
        /\ \A n1, n2 \in 1..Len(joined[1].columns) :
              n1 # n2 => joined[1].columns[n1] # joined[1].columns[n2]
        /\ \A k \in 1..Len(OutRows) :
              /\ DOMAIN OutRows[k] = Range(joined[1].columns)
              /\ \E i \in 1..Len(left_df.data), j \in 1..Len(right_df.data) :
                    Carries(OutRows[k], i, j)

\* C9's case: an output row with both bravo columns, of different values,
\* beside the one-sided columns under their own names
C9Witness ==
    /\ JoinDone
    /\ hyperparams.right_col # hyperparams.left_col
    /\ Len(OutRows) > 0
    /\ {"alpha", "bravo_1", "bravo_2", "charlie"} \subseteq Range(joined[1].columns)
    /\ OutRows[1]["bravo_1"] = left_df.data[OutRows[1]["bravo_1"] - 10]["bravo"]
    /\ OutRows[1]["bravo_2"] = right_df.data[OutRows[1]["bravo_2"] - 20]["bravo"]
    /\ OutRows[1]["bravo_1"] # OutRows[1]["bravo_2"]

(***************************************************************************)
(* Claims about produce (Spec)                                             *)
(***************************************************************************)
BothTabular == left.entry # None /\ right.entry # None
ValidationError ==
    error # None /\ error[1].type = "InvalidArgumentValueError"
AccuracyInvalid == hyperparams.accuracy <= 0 \/ hyperparams.accuracy > AccDen
\* the selector finds no supported join type for the two columns
Unsupported ==
    LET common == (LeftTags \cap Recognised) \cap (RightTags \cap Recognised)
    IN  /\ common = {}
        /\ ~(LeftTags \cap NumericTags # {} /\ RightTags \cap NumericTags # {})
        /\ ~(LeftTags \cap StringTags # {} /\ RightTags \cap StringTags # {})
\* a dataset's table
TableOf(dataset) == dataset.resources[dataset.entry[1]]

\* C2: given datasets that each hold a tabular resource, produce fails with
\* a validation error exactly when accuracy <= 0 or accuracy > 1 or the type
\* selector finds no supported join type: then the call cannot end in a
\* result, it can always take its next step until it has raised, what it
\* raises is the validation error, no resolver or join step has run on either
\* table and no result dataset exists; with accuracy in (0, 1] and a
\* supported type pair no validation error is ever raised.
C2Theorem ==
    BothTabular =>
        /\ AccuracyInvalid \/ Unsupported
              => /\ pc \in {"start", "accuracy", "select", "dispatch", "raised"}
                 /\ pc # "raised" => ENABLED Next
                 /\ pc = "raised" => ValidationError
                 /\ AccuracyInvalid => pc \in {"start", "accuracy", "raised"}
                 /\ log = <<>>
                 /\ joined = None
                 /\ result_dataset = None
                 /\ TableOf(left).index = RangeIndex(Len(TableOf(left).data))
                 /\ TableOf(left).index_name = None
                 /\ TableOf(right).index = RangeIndex(Len(TableOf(right).data))
        /\ ~(AccuracyInvalid \/ Unsupported) => ~ValidationError
        /\ ValidationError => result_dataset = None

\* C2's case: both datasets hold a table, the accuracy is 1.25 and the call
\* has raised the validation error
C2Witness ==
    /\ BothTabular
    /\ hyperparams.accuracy = (5 * AccDen) \div 4
    /\ pc = "raised"
    /\ ValidationError
    /\ result_dataset = None

\* C10: a successful produce returns a collection with exactly the resource
\* ids of the left collection; the joined table stands under the id of the
\* left tabular resource, every other id holds the left collection's
\* resource, unchanged, and no resource of the right collection is in it.
C10Theorem ==
    pc = "done" =>
        /\ result_dataset # None
        /\ DOMAIN result_dataset[1] = DOMAIN left.resources
        /\ result_dataset[1][left.entry[1]] = joined[1]
        /\ \A id \in DOMAIN left.resources \ {left.entry[1]} :
              /\ result_dataset[1][id] = left.resources[id]
              /\ result_dataset[1][id] = OtherResource(1)
        /\ \A id \in DOMAIN result_dataset[1], rid \in DOMAIN right.resources :
              result_dataset[1][id] # right.resources[rid]

\* C10's case: a left collection of two resources, a right collection of
\* two, and a joined table with rows
C10Witness ==
    /\ pc = "done"
    /\ Cardinality(DOMAIN left.resources) = 2
    /\ Cardinality(DOMAIN right.resources) = 2
    /\ Len(joined[1].data) > 0
    /\ result_dataset[1]["0"] = OtherResource(1)
    /\ result_dataset[1]["learningData"] = joined[1]

(***************************************************************************)
(* Claims about the inputs, the resolver calls of a join, the selector's   *)
(* choice among common tags and the right table's d3mIndex                 *)
(***************************************************************************)
\* C11: a join call in any mode leaves its inputs unchanged: the step by
\* which a join routine returns, and the step by which produce returns after
\* it, leave the left and the right dataset (columns, cell values, row index
\* of their tables) as they were given; no earlier step of produce changes
\* them either.
C11Claim ==
    [][/\ pc' \in {"result", "done"} => left' = left /\ right' = right
       /\ pc' \in {"accuracy", "select", "dispatch"} => left' = left /\ right' = right]_vars

\* the resolver calls a join made, in order
ResolverLog == SelectSeq(log, LAMBDA e : e.arg # None)
LeftValues == {LeftValue(i) : i \in 1..Len(left_df.data)}

\* C12: in every mode, within one join the resolver is invoked exactly once
\* for each distinct value of the left join column, however many rows share
\* it, and the one result is applied to all rows with that value.
C12Claim ==
    JoinDone =>
        /\ Len(ResolverLog) = Cardinality(LeftValues)
        /\ {e.arg[1] : e \in Range(ResolverLog)} = {JoinValue(v) : v \in LeftValues}
        /\ \A i1, i2 \in 1..Len(left_df.data) :
              LeftValue(i1) = LeftValue(i2) => left_df.index[i1] = left_df.index[i2]

\* the resolver family of a selector result
Family(t) ==
    IF t = None THEN "unsupported"
    ELSE IF t[1] \in StringTags THEN "string"
    ELSE IF t[1] \in NumericTags THEN "numeric" ELSE "datetime"

\* C13: the selector's result is a function of the two columns' tag sets
\* alone: whatever the iteration order of the set of common tags, any two
\* selections over the same pair of tag sets choose the same resolver
\* family.
C13Claim ==
    \A t1, t2 \in _get_join_semantic_type(left, left_resource_id[1],
                                          hyperparams.left_col,
                                          right, right_resource_id[1],
                                          hyperparams.right_col) :
        Family(t1) = Family(t2)

RightHasIndex == "d3mIndex" \in Range(right_df.columns)

\* C14: in every mode the join completes for a right table with or without
\* a d3mIndex column: one that is there takes no part in matching and gives
\* the output no column (the output's d3mIndex, if any, holds the left
\* table's values); when there is none, the join does not fail for the lack
\* of it.
C14Claim ==
    /\ JoinDone /\ RightHasIndex
          => /\ Cardinality({n \in 1..Len(joined[1].columns) :
                                joined[1].columns[n] \in {"d3mIndex", "d3mIndex_1",
                                                          "d3mIndex_2"}})
                   = Cardinality({n \in 1..Len(left_df.columns) :
                                     left_df.columns[n] = "d3mIndex"})
             /\ \A k \in 1..Len(OutRows) :
                   Carries(OutRows[k], PairOf(k)[1], PairOf(k)[2])
    /\ pc \in {"result", "raised"} /\ ~RightHasIndex
          => error # Exception("KeyError")

====
